---- MODULE Spec2Model ----
(***************************************************************************)
(* A model of the shard supervisor (src/core/shard.py), its base class     *)
(* (src/core/_server_base.py) and the cluster orchestrator                 *)
(* (src/core/cluster.py).                                                  *)
(*                                                                         *)
(* Text is modelled as a sequence of tokens.  A token is one character     *)
(* that matters to the code (" ", "\n", "|", ",", a digit) or a maximal    *)
(* run of other characters (a word).  A line, as readline() returns it,    *)
(* is a token sequence that ends with "\n"; readline() at end-of-file      *)
(* returns the empty sequence.                                             *)
(***************************************************************************)
EXTENDS Integers, Sequences, FiniteSets, TLC

\* ------------------------------------------------------------------ bounds
MaxStream == 3
MaxRespStream == 4
MaxCalls == 3
MaxSpawn == 2
MaxTele == 2
MaxResp == 1
MaxSpin == 2

\* the parent's descriptor table runs to MaxFd; at the start, the descriptors
\* it has open already are among 3..MaxBusy
MaxFd == 20

MaxBusy == 8

\* ------------------------------------------------------- program constants
StopTimeout == 60
SaveTimeout == 30
AnnounceTimeout == 5

\* ------------------------------------------------------------ text helpers
Sentinel == "DST_RemoteCommandDone"

NL == "\n"

Whitespace == {" ", NL}

RECURSIVE LStrip(_)
LStrip(s) ==
    IF s # << >> /\ Head(s) \in Whitespace THEN LStrip(Tail(s)) ELSE s

RECURSIVE RStrip(_)
RStrip(s) ==
    IF s # << >> /\ s[Len(s)] \in Whitespace
    THEN RStrip(SubSeq(s, 1, Len(s) - 1))
    ELSE s

\* str.strip(): leading and trailing whitespace removed
Strip(s) == RStrip(LStrip(s))

\* str.split(sep): the pieces between the occurrences of sep
RECURSIVE SplitAcc(_, _, _)
SplitAcc(s, sep, cur) ==
    IF s = << >> THEN << cur >>
    ELSE IF Head(s) = sep THEN << cur >> \o SplitAcc(Tail(s), sep, << >>)
    ELSE SplitAcc(Tail(s), sep, Append(cur, Head(s)))

Split(s, sep) == SplitAcc(s, sep, << >>)

\* "".join(lines)
RECURSIVE Join(_)
Join(ls) == IF ls = << >> THEN << >> ELSE Head(ls) \o Join(Tail(ls))

\* the lines of a text whose every line ends with "\n" (the inverse of Join on
\* newline-terminated lines)
RECURSIVE SplitLinesAcc(_, _)
SplitLinesAcc(s, cur) ==
    IF s = << >> THEN (IF cur = << >> THEN << >> ELSE << cur >>)
    ELSE IF Head(s) = NL THEN << Append(cur, NL) >> \o SplitLinesAcc(Tail(s), << >>)
    ELSE SplitLinesAcc(Tail(s), Append(cur, Head(s)))

SplitLines(s) == SplitLinesAcc(s, << >>)

\* str.lower() on the words the telemetry stream carries
LowerTok(t) ==
    CASE t \in {"DST_Stats", "dst_stats", "DST_STATS"} -> "dst_stats"
      [] t \in {"DST_SessionId", "dst_sessionid"} -> "dst_sessionid"
      [] t \in {"DST_Master_Ready", "dst_master_ready"} -> "dst_master_ready"
      [] t \in {"DST_NumPlayersChanged", "dst_numplayerschanged", "DST_NUMPLAYERSCHANGED"}
            -> "dst_numplayerschanged"
      [] t \in {"DST_Saved", "dst_saved"} -> "dst_saved"
      [] t \in {"DST_Unknown", "dst_unknown"} -> "dst_unknown"
      [] OTHER -> t

Lower(s) == [i \in 1..Len(s) |-> LowerTok(s[i])]

Digits == {"0", "1", "2", "3", "8", "9"}

DigitVal(d) ==
    CASE d = "0" -> 0 [] d = "1" -> 1 [] d = "2" -> 2
      [] d = "3" -> 3 [] d = "8" -> 8 [] d = "9" -> 9

RECURSIVE DigitsVal(_, _)
DigitsVal(s, acc) ==
    IF s = << >> THEN acc ELSE DigitsVal(Tail(s), 10 * acc + DigitVal(Head(s)))

\* int(text): surrounding whitespace is ignored, then a non-empty run of
\* digits is required; anything else raises ValueError
PyIntOk(s) ==
    LET t == Strip(s) IN t # << >> /\ \A i \in 1..Len(t) : t[i] \in Digits

PyInt(s) == DigitsVal(Strip(s), 0)

\* ---------------------------------------------------------------- lines
\* what a child may put on the response stream (fd 4)
SentinelLine == << Sentinel, NL >>

RespLines ==
    { << "a", NL >>, << NL >>, SentinelLine, << " ", Sentinel, NL >>,
      << Sentinel, " ", NL >>, << "a", Sentinel, NL >> }

ChildRespLines == { << "a", NL >>, SentinelLine }

\* what a child may put on the telemetry stream (fd 5)
StatsLine == << "DST_Stats", "|", "3.226599", ",", "2.355073", ",", "0.293711", ",", "3", ",", "8", NL >>

StatsLine2 == << "dst_stats", "|", "0.5", ",", "0.25", ",", "0", ",", "1", ",", "2", NL >>

NumPlayersLine == << "DST_NumPlayersChanged", "|", "2", NL >>

GarbageLine == << "garbage", NL >>

TelemetryLines ==
    { StatsLine, StatsLine2, NumPlayersLine, GarbageLine,
      << "dst_numplayerschanged", "|", "1", "0", NL >>,
      << "DST_NumPlayersChanged", "|", "x", NL >>,
      << "DST_SessionId", "|", "804FE0E9FFCE345E", NL >>,
      << "DST_Master_Ready", "|", "1", "0", "9", "9", "9", NL >>,
      << "DST_Saved", "|", "session/8B1254AC45168660/0000000033", NL >>,
      << "DST_Unknown", "|", "x", NL >>,
      << "DST_STATS", "|", "1", ",", "2", NL >>,
      << NL >> }

ChildTeleLines == { NumPlayersLine, GarbageLine }

\* every sequence over S of length at most n
SeqsUpTo(S, n) == UNION { [1..k -> S] : k \in 0..n }

\* ------------------------------------------------------------ shard status
NoStats == [k \in {} |-> 0]

SetKey(st, k, v) == [x \in DOMAIN st \cup {k} |-> IF x = k THEN v ELSE st[x]]

\* the dst_numplayerschanged case
set_num_players_wrong_key(st, stats_value) == SetKey(st, "max_players", PyInt(stats_value))

set_num_players(st, stats_value) == SetKey(st, "num_players", PyInt(stats_value))

unknown_record_raises(st) == [crash |-> TRUE, stats |-> st]

\* `case _`: a record of any other key is logged and nothing else happens
unknown_record(st) == [crash |-> FALSE, stats |-> st]

\* the body of the telemetry loop for one stripped, non-empty record: the
\* status afterwards, or the exception that ends the thread
update_stats_record(st, raw) ==
    LET parts == Split(raw, "|") IN
    IF Len(parts) # 2 THEN [crash |-> TRUE, stats |-> st]
    ELSE
      LET stats_key == Lower(parts[1])
          stats_value == parts[2]
      IN
      CASE stats_key = << "dst_stats" >> ->
             IF Len(Split(stats_value, ",")) # 5
             THEN [crash |-> TRUE, stats |-> st]
             ELSE [crash |-> FALSE, stats |-> st]
        [] stats_key = << "dst_sessionid" >> ->
             [crash |-> FALSE, stats |-> SetKey(st, "session_id", stats_value)]
        [] stats_key = << "dst_master_ready" >> ->
             IF PyIntOk(stats_value)
             THEN [crash |-> FALSE, stats |-> SetKey(st, "port", PyInt(stats_value))]
             ELSE [crash |-> TRUE, stats |-> st]
        [] stats_key = << "dst_numplayerschanged" >> ->
             IF PyIntOk(stats_value)
             THEN [crash |-> FALSE, stats |-> set_num_players(st, stats_value)]
             ELSE [crash |-> TRUE, stats |-> st]
        [] stats_key = << "dst_saved" >> ->
             [crash |-> FALSE, stats |-> SetKey(st, "data_file", stats_value)]
        [] OTHER -> unknown_record(st)

\* ------------------------------------------------------------------ state
VARIABLES
    pc,              \* where the coordinating thread is: "idle", "cmd_read" (in
                     \* _send_cmd's read loop), "join" (in Thread.join)
    call,            \* the operation the coordinating thread is inside
    process,         \* Shard._process: 0 for None, else the child's number
    returncode,      \* Popen.returncode of that handle
    fd_files,        \* whether _fd3_file, _fd4_file, _fd5_file are open files
    monitor_thread,  \* Shard._monitor_thread and the position of its thread
    lines,           \* _send_cmd's local list
    result,          \* what the last completed _send_cmd returned
    timer,           \* the threading.Timer of the current _timeout_call
    children,        \* the operating system's view of every child spawned
    child_args,      \* the flags each child was launched with
    owed,            \* commands each child has read and not yet answered
    fd3,             \* command stream: written by the parent, read by a child
    fd4,             \* response stream: written by a child, read by _send_cmd
    fd5,             \* telemetry stream: written by a child, read by _update_stats
    eof,             \* the parent's read streams whose every write end is closed
    signals,         \* the signals sent to each child
    stats,           \* Shard.stats
    ev,              \* the last call on the shard and how it ended
    nCalls,          \* calls made so far
    resp,            \* every line put on fd4 since the last command was written
    nTele,           \* telemetry lines written so far
    last_rec,        \* the last line _update_stats read
    shard_list,      \* Cluster.shard_list: the registered shards' names, in order
    dirs,            \* what Cluster.dir_path.iterdir() yields, in order
    cshard,          \* per registered shard: its process handle (0 for None)
    temp_spawned,    \* children spawned by Cluster.update_mods' temporary shard
    started,         \* the shards Cluster.start has called start() on, in order
    cev,             \* the last call on the cluster and how it ended
    stopping,        \* Cluster.stop's loop: the position in shard_list of the
                     \* shard whose stop() it is inside, 0 outside the loop
    commands,        \* the shards whose stop() has written c_shutdown, in order
    fdtable,         \* the parent's descriptor table from 3 up: what each
                     \* descriptor number refers to
    fileno,          \* the descriptor numbers that _fd3_file, _fd4_file and
                     \* _fd5_file wrap, 0 for None
    child_table,     \* the descriptor table the spawned child starts with
    fpc              \* how far the start of a shard has set descriptors up

shardVars ==
    << pc, call, process, returncode, fd_files, monitor_thread, lines, result,
       timer, children, child_args, owed, fd3, fd4, fd5, eof, signals, stats,
       ev, nCalls, resp, nTele, last_rec >>

clusterVars ==
    << shard_list, dirs, cshard, temp_spawned, started, cev, stopping, commands >>

fdVars == << fdtable, fileno, child_table, fpc >>

vars == << shardVars, clusterVars, fdVars >>

ChildIds == 1..MaxSpawn

NSpawn == Cardinality({ i \in ChildIds : children[i] # "unborn" })

NoTimer == [state |-> "none", timeout |-> 0]

StartFlags == { "-skip_update_server_mods" }

UpdateFlags == { "-only_update_server_mods" }

Msgs == { "hi" }

\* ------------------------------------------------------------ Shard (code)
is_running_without_not ==
    process # 0 /\ returncode \notin { "None", 0 }

\* Shard.is_running: a handle is held and its returncode is falsy (None or 0)
is_running ==
    process # 0 /\ returncode \in { "None", 0 }

\* Popen(...) succeeded: a new child runs and _process refers to it
Popen(flags) ==
    LET new == NSpawn + 1 IN
    /\ NSpawn < MaxSpawn
    /\ children' = [children EXCEPT ![new] = "alive"]
    /\ child_args' = [child_args EXCEPT ![new] = flags]
    /\ process' = new
    /\ returncode' = "None"

Raised(op, what) == [op |-> op, res |-> what, n |-> nCalls + 1]

start_popen_raised_thread_started ==
    /\ ev' = Raised("start", "SpawnError")
    /\ monitor_thread' = "check"
    /\ UNCHANGED << process, returncode, children, child_args >>

\* Shard.start when Popen raises in _start_server: the exception leaves
\* start() before _monitor_stats, and _process was not assigned
start_popen_raised ==
    /\ ev' = Raised("start", "SpawnError")
    /\ UNCHANGED << process, returncode, monitor_thread, children, child_args >>

\* Shard.start
start ==
    /\ pc = "idle"
    /\ nCalls < MaxCalls
    /\ nCalls' = nCalls + 1
    /\ UNCHANGED << pc, call, lines, result, timer, owed, fd3, fd4, fd5, eof,
                    signals, stats, resp, nTele, last_rec, clusterVars, fdVars >>
    /\ IF is_running
       THEN /\ ev' = Raised("start", "ignored")
            /\ UNCHANGED << process, returncode, fd_files, monitor_thread,
                            children, child_args >>
       ELSE \E cfgOk, popenOk \in BOOLEAN :
              IF ~cfgOk
              THEN \* load_config raised
                   /\ ev' = Raised("start", "ConfigError")
                   /\ UNCHANGED << process, returncode, fd_files, monitor_thread,
                                   children, child_args >>
              ELSE /\ fd_files' = TRUE
                   /\ IF popenOk
                      THEN /\ Popen(StartFlags)
                           /\ monitor_thread' = "check"
                           /\ ev' = Raised("start", "returned")
                      ELSE start_popen_raised

\* ServerBase._timeout_call entering Shard._send_cmd: the timer is started,
\* then the command is written to _fd3_file (None.write raises AttributeError)
send_cmd_begin(op, command, timeout) ==
    /\ nCalls' = nCalls + 1
    /\ timer' = [state |-> "running", timeout |-> timeout]
    /\ IF ~fd_files
       THEN /\ ev' = Raised(op, "AttributeError")
            /\ UNCHANGED << pc, call, lines, fd3, resp >>
       ELSE /\ fd3' = Append(fd3, command)
            /\ lines' = << >>
            /\ resp' = << >>
            /\ pc' = "cmd_read"
            /\ call' = op
            /\ ev' = Raised(op, "pending")

ShutdownCmd(save) == IF save THEN "c_shutdown(true)" ELSE "c_shutdown(false)"

\* Shard.stop, up to the point where _send_cmd starts to read
stop ==
    /\ pc = "idle"
    /\ nCalls < MaxCalls
    /\ UNCHANGED << process, returncode, fd_files, monitor_thread, result,
                    children, child_args, owed, fd4, fd5, eof, signals, stats,
                    nTele, last_rec, clusterVars, fdVars >>
    /\ IF is_running
       THEN \E save \in BOOLEAN : send_cmd_begin("stop", ShutdownCmd(save), StopTimeout)
       ELSE /\ nCalls' = nCalls + 1
            /\ ev' = Raised("stop", "ignored")
            /\ UNCHANGED << pc, call, lines, timer, fd3, resp >>

\* Shard._save
save ==
    /\ pc = "idle"
    /\ nCalls < MaxCalls
    /\ UNCHANGED << process, returncode, fd_files, monitor_thread, result,
                    children, child_args, owed, fd4, fd5, eof, signals, stats,
                    nTele, last_rec, clusterVars, fdVars >>
    /\ send_cmd_begin("save", "c_save()", SaveTimeout)

\* Shard._announce
announce ==
    /\ pc = "idle"
    /\ nCalls < MaxCalls
    /\ UNCHANGED << process, returncode, fd_files, monitor_thread, result,
                    children, child_args, owed, fd4, fd5, eof, signals, stats,
                    nTele, last_rec, clusterVars, fdVars >>
    /\ \E msg \in Msgs :
         send_cmd_begin("announce", "c_announce(\"" \o msg \o "\")", AnnounceTimeout)

\* Shard.update_mods: _start_server with the update flags, then stop()
update_mods ==
    /\ pc = "idle"
    /\ nCalls < MaxCalls
    /\ UNCHANGED << fd_files, monitor_thread, result, owed, fd4, fd5, eof,
                    signals, stats, nTele, last_rec, clusterVars, fdVars >>
    /\ \E popenOk \in BOOLEAN :
         IF popenOk
         THEN /\ Popen(UpdateFlags)
              \* stop(): is_running() holds of the handle just made
              /\ send_cmd_begin("update_mods", ShutdownCmd(TRUE), StopTimeout)
         ELSE /\ nCalls' = nCalls + 1
              /\ ev' = Raised("update_mods", "SpawnError")
              /\ UNCHANGED << pc, call, lines, timer, fd3, resp, process,
                              returncode, children, child_args >>

\* _send_cmd's test for the end of a response
is_sentinel_contains(line) == \E i \in 1..Len(line) : line[i] = Sentinel

is_sentinel(line) == Strip(line) = << Sentinel >>

\* One turn of _send_cmd's loop: readline() on _fd4_file, which blocks while
\* the stream is empty and open and returns "" at end-of-file
send_cmd_readline ==
    /\ pc = "cmd_read"
    /\ fd4 # << >> \/ (4 \in eof /\ Len(lines) < MaxSpin)
    /\ LET line == IF fd4 # << >> THEN Head(fd4) ELSE << >> IN
       /\ fd4' = IF fd4 # << >> THEN Tail(fd4) ELSE fd4
       /\ IF is_sentinel(line)
          THEN /\ result' = Join(lines)
               /\ timer' = IF timer.state = "running"
                           THEN [timer EXCEPT !.state = "cancelled"]
                           ELSE timer
               /\ IF call \in { "stop", "update_mods" }
                  THEN pc' = "join" /\ UNCHANGED << call, ev >>
                  ELSE /\ pc' = "idle"
                       /\ call' = "none"
                       /\ ev' = [ev EXCEPT !.res = "returned"]
               /\ UNCHANGED lines
          ELSE /\ lines' = Append(lines, line)
               /\ UNCHANGED << pc, call, ev, result, timer >>
    /\ UNCHANGED << process, returncode, fd_files, monitor_thread, children,
                    child_args, owed, fd3, fd5, eof, signals, stats, nCalls,
                    resp, nTele, last_rec, clusterVars, fdVars >>

\* The end of Shard.stop: _monitor_thread.join() (None.join raises
\* AttributeError; otherwise it returns once the thread has ended)
join ==
    /\ pc = "join"
    /\ monitor_thread \in { "None", "finished", "crashed" }
    /\ pc' = "idle"
    /\ call' = "none"
    /\ ev' = [ev EXCEPT !.res = IF monitor_thread = "None"
                                THEN "AttributeError" ELSE "returned"]
    /\ UNCHANGED << process, returncode, fd_files, monitor_thread, lines, result,
                    timer, children, child_args, owed, fd3, fd4, fd5, eof,
                    signals, stats, nCalls, resp, nTele, last_rec, clusterVars, fdVars >>

\* The Timer of _timeout_call expires: handle_timeout raises TimeoutError in
\* the timer's own thread, which ends that thread and nothing else
handle_timeout ==
    /\ timer.state = "running"
    /\ timer' = [timer EXCEPT !.state = "fired"]
    /\ UNCHANGED << pc, call, process, returncode, fd_files, monitor_thread,
                    lines, result, children, child_args, owed, fd3, fd4, fd5,
                    eof, signals, stats, ev, nCalls, resp, nTele, last_rec,
                    clusterVars, fdVars >>

\* Shard._update_stats, the loop condition
update_stats_check ==
    /\ monitor_thread = "check"
    /\ monitor_thread' = IF is_running THEN "read" ELSE "finished"
    /\ UNCHANGED << pc, call, process, returncode, fd_files, lines, result,
                    timer, children, child_args, owed, fd3, fd4, fd5, eof,
                    signals, stats, ev, nCalls, resp, nTele, last_rec,
                    clusterVars, fdVars >>

\* Shard._update_stats, the loop body: readline() on _fd5_file, then the match
update_stats_read ==
    /\ monitor_thread = "read"
    /\ fd5 # << >> \/ 5 \in eof
    /\ LET line == IF fd5 # << >> THEN Head(fd5) ELSE << >>
           stats_raw == Strip(line)
           after == update_stats_record(stats, stats_raw)
       IN
       /\ fd5' = IF fd5 # << >> THEN Tail(fd5) ELSE fd5
       /\ last_rec' = line
       /\ IF stats_raw = << >>
          THEN monitor_thread' = "check" /\ UNCHANGED stats
          ELSE /\ stats' = after.stats
               /\ monitor_thread' = IF after.crash THEN "crashed" ELSE "check"
    /\ UNCHANGED << pc, call, process, returncode, fd_files, lines, result,
                    timer, children, child_args, owed, fd3, fd4, eof, signals,
                    ev, nCalls, resp, nTele, clusterVars, fdVars >>

\* Shard._stop_by_signal: terminate(), wait(10), kill(), wait().  No code in
\* src/ calls it, so it is no step of the program.
stop_by_signal ==
    /\ process # 0
    /\ signals' = [signals EXCEPT ![process] =
                     IF children[process] = "hung" THEN << "SIGTERM", "SIGKILL" >>
                     ELSE << "SIGTERM" >>]
    /\ children' = [children EXCEPT ![process] = "exited"]
    /\ returncode' = IF children[process] = "hung" THEN -9 ELSE -15
    /\ UNCHANGED << pc, call, process, fd_files, monitor_thread, lines, result,
                    timer, child_args, owed, fd3, fd4, fd5, eof, stats, ev,
                    nCalls, resp, nTele, last_rec, clusterVars, fdVars >>

\* ------------------------------------------------------ the child (environment)
\* A child reads a command from its descriptor 3
child_read_cmd(i) ==
    /\ children[i] = "alive"
    /\ fd3 # << >>
    /\ fd3' = Tail(fd3)
    /\ owed' = [owed EXCEPT ![i] = @ + 1]
    /\ UNCHANGED << pc, call, process, returncode, fd_files, monitor_thread,
                    lines, result, timer, children, child_args, fd4, fd5, eof,
                    signals, stats, ev, nCalls, resp, nTele, last_rec,
                    clusterVars, fdVars >>

\* A child answers a command it has read: response lines, then the sentinel
child_respond(i) ==
    /\ children[i] = "alive"
    /\ owed[i] > 0
    /\ \E line \in ChildRespLines :
         /\ line # SentinelLine => Len(resp) < MaxResp
         /\ fd4' = Append(fd4, line)
         /\ resp' = Append(resp, line)
         /\ owed' = IF line = SentinelLine THEN [owed EXCEPT ![i] = @ - 1] ELSE owed
    /\ UNCHANGED << pc, call, process, returncode, fd_files, monitor_thread,
                    lines, result, timer, children, child_args, fd3, fd5, eof,
                    signals, stats, ev, nCalls, nTele, last_rec, clusterVars, fdVars >>

\* A child reports on its descriptor 5
child_telemetry(i) ==
    /\ children[i] = "alive"
    /\ nTele < MaxTele
    /\ nTele' = nTele + 1
    /\ \E line \in ChildTeleLines : fd5' = Append(fd5, line)
    /\ UNCHANGED << pc, call, process, returncode, fd_files, monitor_thread,
                    lines, result, timer, children, child_args, owed, fd3, fd4,
                    eof, signals, stats, ev, nCalls, resp, last_rec,
                    clusterVars, fdVars >>

\* A child exits (on c_shutdown, or by a crash) or stops responding for good
child_ends(i) ==
    /\ children[i] = "alive"
    /\ \E how \in { "exited", "hung" } : children' = [children EXCEPT ![i] = how]
    /\ UNCHANGED << pc, call, process, returncode, fd_files, monitor_thread,
                    lines, result, timer, child_args, owed, fd3, fd4, fd5, eof,
                    signals, stats, ev, nCalls, resp, nTele, last_rec,
                    clusterVars, fdVars >>

\* ---------------------------------------------------------- Cluster (code)
ShardNames == { "A", "B" }

Entries == { "A", "B", "cluster.ini" }

\* Path.is_dir() of an entry of the cluster directory
is_dir(e) == e \in ShardNames

\* Cluster._detect_shard_paths: the directories among iterdir(), in its order
detect_shard_paths == SelectSeq(dirs, is_dir)

Range(f) == { f[i] : i \in DOMAIN f }

\* Shard.is_running of a registered shard: its handle is never polled, so
\* holding one is what counts
shard_is_running(name) == cshard[name] # "None"

\* Cluster.is_running
cluster_is_running == \E name \in Range(shard_list) : shard_is_running(name)

\* Cluster.update_steam: run(..., check=True) and the RuntimeError it turns
\* CalledProcessError into
update_steam(steamOk) == IF steamOk THEN "ok" ELSE "RuntimeError"

\* Cluster.update_mods: Shard.update_mods on a shard made for the purpose,
\* whose _fd3_file is None when its stop() reaches _send_cmd
cluster_update_mods(popenOk) ==
    [res |-> IF popenOk THEN "AttributeError" ELSE "SpawnError", spawned |-> popenOk]

update_unchecked_steam(steamOk, popenOk) == cluster_update_mods(popenOk)

\* Cluster.update: update_steam, then update_mods
update(steamOk, popenOk) ==
    IF update_steam(steamOk) # "ok"
    THEN [res |-> update_steam(steamOk), spawned |-> FALSE]
    ELSE cluster_update_mods(popenOk)

CRaised(op, what, empty, steam) ==
    [op |-> op, res |-> what, n |-> cev.n + 1, empty |-> empty, steam |-> steam]

\* the shards of list that are started before the one at position failAt
\* fails to spawn (all of them when failAt is 0)
StartedBefore(list, failAt) ==
    IF failAt = 0 THEN list ELSE SubSeq(list, 1, failAt - 1)

\* Cluster.start
cluster_start ==
    /\ stopping = 0
    /\ cev.n < MaxCalls
    /\ UNCHANGED << shardVars, fdVars, dirs, stopping, commands >>
    /\ IF cluster_is_running
       THEN /\ cev' = CRaised("start", "ignored", shard_list = << >>, "not run")
            /\ UNCHANGED << shard_list, cshard, temp_spawned, started >>
       ELSE \E cfgOk, steamOk, popenOk \in BOOLEAN :
              IF ~cfgOk
              THEN /\ cev' = CRaised("start", "ConfigError", shard_list = << >>, "not run")
                   /\ UNCHANGED << shard_list, cshard, temp_spawned, started >>
              ELSE
                LET r == update(steamOk, popenOk)
                    list == IF shard_list = << >> THEN detect_shard_paths
                            ELSE shard_list
                    steam == IF steamOk THEN "ok" ELSE "failed"
                IN
                /\ temp_spawned' = IF r.spawned THEN temp_spawned + 1 ELSE temp_spawned
                /\ IF r.res # "ok"
                   THEN /\ cev' = CRaised("start", r.res, shard_list = << >>, steam)
                        /\ UNCHANGED << shard_list, cshard, started >>
                   ELSE \E failAt \in 0..Len(list) :
                          /\ shard_list' = list
                          /\ started' = started \o StartedBefore(list, failAt)
                          /\ cshard' = [name \in ShardNames |->
                                          IF name \in Range(StartedBefore(list, failAt))
                                          THEN "alive" ELSE cshard[name]]
                          /\ cev' = CRaised("start",
                                            IF failAt = 0 THEN "returned" ELSE "SpawnError",
                                            shard_list = << >>, steam)

\* Shard.start called on a registered shard directly
shard_start(name) ==
    /\ cev.n < MaxCalls
    /\ name \in Range(shard_list)
    /\ stopping = 0
    /\ UNCHANGED << shardVars, fdVars, dirs, shard_list, temp_spawned, started, stopping,
                    commands >>
    /\ IF shard_is_running(name)
       THEN /\ cev' = CRaised("shard.start", "ignored", FALSE, "not run")
            /\ UNCHANGED cshard
       ELSE \E popenOk \in BOOLEAN :
              /\ cshard' = IF popenOk THEN [cshard EXCEPT ![name] = "alive"] ELSE cshard
              /\ cev' = CRaised("shard.start",
                                IF popenOk THEN "returned" ELSE "SpawnError", FALSE,
                                "not run")

\* the child of a registered shard exits
shard_child_exits(name) ==
    /\ cshard[name] = "alive"
    /\ cshard' = [cshard EXCEPT ![name] = "exited"]
    /\ UNCHANGED << shardVars, fdVars, dirs, shard_list, temp_spawned, started, cev,
                    stopping, commands >>

\* the position of the first shard after position from whose stop() passes
\* its is_running() test, 0 when the loop of Cluster.stop finds none
next_stop(from) ==
    LET later == { i \in (from + 1)..Len(shard_list) : shard_is_running(shard_list[i]) }
    IN  IF later = {} THEN 0 ELSE CHOOSE i \in later : \A j \in later : i <= j

\* Cluster.stop, up to the first shard.stop() that writes its command: the
\* shards before it ignore the call, and that one blocks in its _send_cmd
cluster_stop ==
    /\ stopping = 0
    /\ cev.n < MaxCalls
    /\ UNCHANGED << shardVars, fdVars, dirs, shard_list, cshard, temp_spawned, started >>
    /\ IF cluster_is_running
       THEN /\ stopping' = next_stop(0)
            /\ commands' = Append(commands, shard_list[next_stop(0)])
            /\ cev' = CRaised("stop", "pending", shard_list = << >>, "not run")
       ELSE /\ cev' = CRaised("stop", "ignored", shard_list = << >>, "not run")
            /\ UNCHANGED << stopping, commands >>

\* The shard.stop() that Cluster.stop is inside returns: its child has
\* answered the command and exited and its telemetry thread has ended.  The
\* loop goes on to the next shard whose stop() writes a command, or ends
cluster_stop_continue ==
    /\ stopping # 0
    /\ cshard[shard_list[stopping]] = "alive"
    /\ cshard' = [cshard EXCEPT ![shard_list[stopping]] = "exited"]
    /\ stopping' = next_stop(stopping)
    /\ IF next_stop(stopping) # 0
       THEN /\ commands' = Append(commands, shard_list[next_stop(stopping)])
            /\ UNCHANGED cev
       ELSE /\ cev' = [cev EXCEPT !.res = "returned"]
            /\ UNCHANGED commands
    /\ UNCHANGED << shardVars, fdVars, dirs, shard_list, temp_spawned, started >>

\* -------------------------------------------------------------- descriptors
\* descriptor numbers from 3 up to the end of the table
FdNums == 3..MaxFd

\* what a descriptor number refers to: nothing, a file of the parent's that is
\* no pipe of this shard, or one end of a pipe.  Pipes are numbered by the
\* child descriptor they are made for: 3, 4, 5, and 0, 1 for Popen's stdin and
\* stdout pipes
Closed == [kind |-> "closed", pipe |-> 0, end |-> "none", inheritable |-> FALSE]

OtherFile == [kind |-> "other", pipe |-> 0, end |-> "none", inheritable |-> FALSE]

PipeEnd(k, e) == [kind |-> "pipe", pipe |-> k, end |-> e, inheritable |-> FALSE]

\* the number the kernel gives the next descriptor opened
LowestFree(t) ==
    CHOOSE n \in FdNums : t[n] = Closed /\ \A m \in FdNums : t[m] = Closed => n <= m

\* os.pipe(): two new descriptors, neither inheritable
pipe(t, k) ==
    LET rfd == LowestFree(t)
        t1 == [t EXCEPT ![rfd] = PipeEnd(k, "r")]
        wfd == LowestFree(t1)
    IN  [table |-> [t1 EXCEPT ![wfd] = PipeEnd(k, "w")], rfd |-> rfd, wfd |-> wfd]

\* os.dup2(fd, fd2, inheritable=True): fd2 is closed and made an inheritable
\* copy of fd; nothing happens when the two are the same number
dup2(t, fd, fd2) ==
    IF fd = fd2 THEN t ELSE [t EXCEPT ![fd2] = [t[fd] EXCEPT !.inheritable = TRUE]]

\* os.close(fd)
close(t, fd) == [t EXCEPT ![fd] = Closed]

\* ServerBase._open_inheritable_pipe: the table afterwards and the descriptor
\* number the returned file wraps
open_inheritable_pipe(t, target_fd, mode) ==
    LET p == pipe(t, target_fd)
        return_fd == IF mode = "wt" THEN p.wfd ELSE p.rfd
        relay_fd == IF mode = "wt" THEN p.rfd ELSE p.wfd
    IN  [table |-> close(dup2(p.table, relay_fd, target_fd), relay_fd),
         file |-> return_fd]

\* Popen's arguments close_fds and pass_fds: _start_server passes neither, so
\* they have subprocess's defaults
close_fds == TRUE

pass_fds == {}

\* the descriptors from 3 up that a child of Popen starts with
child_descriptors(t) ==
    [n \in FdNums |->
        IF n \in pass_fds THEN t[n]
        ELSE IF close_fds THEN Closed
        ELSE IF t[n].inheritable THEN t[n] ELSE Closed]

\* the parent's table once Popen(stdin=PIPE, stdout=PIPE, stderr=STDOUT) has
\* returned: it keeps the write end of the stdin pipe and the read end of the
\* stdout pipe
popen_parent(t) ==
    LET p2c == pipe(t, 0)
        c2p == pipe(p2c.table, 1)
    IN  close(close(c2p.table, p2c.rfd), c2p.wfd)

\* Shard._open_fd_files on a shard whose three files are None
open_fd_files ==
    /\ fpc = "new"
    /\ LET f3 == open_inheritable_pipe(fdtable, 3, "wt")
           f4 == open_inheritable_pipe(f3.table, 4, "rt")
           f5 == open_inheritable_pipe(f4.table, 5, "rt")
       IN
       /\ fdtable' = f5.table
       /\ fileno' = [k \in 3..5 |-> IF k = 3 THEN f3.file
                                    ELSE IF k = 4 THEN f4.file ELSE f5.file]
    /\ fpc' = "opened"
    /\ UNCHANGED << shardVars, clusterVars, child_table >>

\* Shard._start_server, as far as descriptors go: Popen forks the child
start_server_descriptors ==
    /\ fpc = "opened"
    /\ child_table' = child_descriptors(fdtable)
    /\ fdtable' = popen_parent(fdtable)
    /\ fpc' = "spawned"
    /\ UNCHANGED << shardVars, clusterVars, fileno >>

\* ----------------------------------------------------------- specifications
NoEv == [op |-> "none", res |-> "none", n |-> 0]

NoCEv == [op |-> "none", res |-> "none", n |-> 0, empty |-> TRUE, steam |-> "not run"]

\* descriptors left out of account: nothing opened, nothing spawned
InitDescriptors0 ==
    /\ fdtable = [n \in FdNums |-> Closed]
    /\ fileno = [k \in 3..5 |-> 0]
    /\ child_table = [n \in FdNums |-> Closed]
    /\ fpc = "unused"

\* a Cluster with no shard registered, in an empty directory
InitCluster0 ==
    /\ shard_list = << >>
    /\ dirs = << >>
    /\ cshard = [name \in ShardNames |-> "None"]
    /\ temp_spawned = 0
    /\ started = << >>
    /\ cev = NoCEv
    /\ stopping = 0
    /\ commands = << >>

\* a Shard as its constructor leaves it
Init ==
    /\ pc = "idle"
    /\ call = "none"
    /\ process = 0
    /\ returncode = "None"
    /\ fd_files = FALSE
    /\ monitor_thread = "None"
    /\ lines = << >>
    /\ result = << >>
    /\ timer = NoTimer
    /\ children = [i \in ChildIds |-> "unborn"]
    /\ child_args = [i \in ChildIds |-> {}]
    /\ owed = [i \in ChildIds |-> 0]
    /\ fd3 = << >>
    /\ fd4 = << >>
    /\ fd5 = << >>
    /\ eof = {}
    /\ signals = [i \in ChildIds |-> << >>]
    /\ stats = NoStats
    /\ ev = NoEv
    /\ nCalls = 0
    /\ resp = << >>
    /\ nTele = 0
    /\ last_rec = << >>
    /\ InitCluster0
    /\ InitDescriptors0

Next ==
    \/ start
    \/ stop
    \/ save
    \/ announce
    \/ update_mods
    \/ send_cmd_readline
    \/ join
    \/ handle_timeout
    \/ update_stats_check
    \/ update_stats_read
    \/ \E i \in ChildIds : child_read_cmd(i)
    \/ \E i \in ChildIds : child_respond(i)
    \/ \E i \in ChildIds : child_telemetry(i)
    \/ \E i \in ChildIds : child_ends(i)

Spec == Init /\ [][Next]_vars

\* The shard after start() has returned, with its child alive
InitRunning ==
    /\ process = 1
    /\ returncode = "None"
    /\ fd_files = TRUE
    /\ children = [i \in ChildIds |-> IF i = 1 THEN "alive" ELSE "unborn"]
    /\ child_args = [i \in ChildIds |-> IF i = 1 THEN StartFlags ELSE {}]
    /\ owed = [i \in ChildIds |-> 0]
    /\ fd3 = << >>
    /\ signals = [i \in ChildIds |-> << >>]
    /\ result = << >>
    /\ InitCluster0
    /\ InitDescriptors0

\* _save() has written its command and the child has put a response stream
\* on fd4; only _send_cmd's loop runs
InitCmd ==
    /\ InitRunning
    /\ pc = "cmd_read"
    /\ call = "save"
    /\ monitor_thread = "read"
    /\ lines = << >>
    /\ timer = [state |-> "running", timeout |-> SaveTimeout]
    /\ fd4 \in SeqsUpTo(RespLines, MaxRespStream)
    /\ resp = fd4
    /\ fd5 = << >>
    /\ eof \in { {}, {4} }
    /\ stats = NoStats
    /\ ev = [op |-> "save", res |-> "pending", n |-> 2]
    /\ nCalls = 2
    /\ nTele = 0
    /\ last_rec = << >>

NextCmd == send_cmd_readline

SpecCmd == InitCmd /\ [][NextCmd]_vars

\* The child has put a telemetry stream on fd5; only _update_stats runs
InitStats ==
    /\ InitRunning
    /\ pc = "idle"
    /\ call = "none"
    /\ monitor_thread = "check"
    /\ lines = << >>
    /\ timer = NoTimer
    /\ fd4 = << >>
    /\ resp = << >>
    /\ fd5 \in SeqsUpTo(TelemetryLines, MaxStream)
    /\ eof \in { {}, {5} }
    /\ stats = NoStats
    /\ ev = [op |-> "start", res |-> "returned", n |-> 1]
    /\ nCalls = 1
    /\ nTele = Len(fd5)
    /\ last_rec = << >>

NextStats ==
    \/ update_stats_check
    \/ update_stats_read

SpecStats == InitStats /\ [][NextStats]_vars

\* sequences over S without repetition
NoDupSeqs(S) ==
    { q \in SeqsUpTo(S, Cardinality(S)) : \A i, j \in 1..Len(q) : i # j => q[i] # q[j] }

\* A cluster directory with its entries in some enumeration order, and a
\* Cluster whose registered shards are none or given at construction
InitCluster ==
    /\ pc = "idle"
    /\ call = "none"
    /\ process = 0
    /\ returncode = "None"
    /\ fd_files = FALSE
    /\ monitor_thread = "None"
    /\ lines = << >>
    /\ result = << >>
    /\ timer = NoTimer
    /\ children = [i \in ChildIds |-> "unborn"]
    /\ child_args = [i \in ChildIds |-> {}]
    /\ owed = [i \in ChildIds |-> 0]
    /\ fd3 = << >>
    /\ fd4 = << >>
    /\ fd5 = << >>
    /\ eof = {}
    /\ signals = [i \in ChildIds |-> << >>]
    /\ stats = NoStats
    /\ ev = NoEv
    /\ nCalls = 0
    /\ resp = << >>
    /\ nTele = 0
    /\ last_rec = << >>
    /\ InitDescriptors0
    /\ dirs \in NoDupSeqs(Entries)
    /\ shard_list \in NoDupSeqs(ShardNames)
    /\ cshard = [name \in ShardNames |-> "None"]
    /\ temp_spawned = 0
    /\ started = << >>
    /\ cev = NoCEv
    /\ stopping = 0
    /\ commands = << >>

NextCluster ==
    \/ cluster_start
    \/ \E name \in ShardNames : shard_start(name)
    \/ \E name \in ShardNames : shard_child_exits(name)
    \/ cluster_stop
    \/ cluster_stop_continue

SpecCluster == InitCluster /\ [][NextCluster]_vars

\* A shard about to be started in a parent that has any of the descriptors
\* 3..MaxBusy open already (log files, sockets, another shard's pipes)
InitFds ==
    /\ pc = "idle"
    /\ call = "none"
    /\ process = 0
    /\ returncode = "None"
    /\ fd_files = FALSE
    /\ monitor_thread = "None"
    /\ lines = << >>
    /\ result = << >>
    /\ timer = NoTimer
    /\ children = [i \in ChildIds |-> "unborn"]
    /\ child_args = [i \in ChildIds |-> {}]
    /\ owed = [i \in ChildIds |-> 0]
    /\ fd3 = << >>
    /\ fd4 = << >>
    /\ fd5 = << >>
    /\ eof = {}
    /\ signals = [i \in ChildIds |-> << >>]
    /\ stats = NoStats
    /\ ev = NoEv
    /\ nCalls = 0
    /\ resp = << >>
    /\ nTele = 0
    /\ last_rec = << >>
    /\ InitCluster0
    /\ \E busy \in SUBSET (3..MaxBusy) :
         fdtable = [n \in FdNums |-> IF n \in busy THEN OtherFile ELSE Closed]
    /\ fileno = [k \in 3..5 |-> 0]
    /\ child_table = [n \in FdNums |-> Closed]
    /\ fpc = "new"

NextFds ==
    \/ open_fd_files
    \/ start_server_descriptors

SpecFds == InitFds /\ [][NextFds]_vars

\* ------------------------------------------------------------------ claims
\* the position of the first line of q that is the sentinel line (exactly, or
\* up to surrounding whitespace), 0 when there is none
FirstLiteralSentinel(q) ==
    IF \E i \in 1..Len(q) : q[i] = SentinelLine
    THEN CHOOSE i \in 1..Len(q) : q[i] = SentinelLine /\ \A j \in 1..(i - 1) : q[j] # SentinelLine
    ELSE 0

FirstStrippedSentinel(q) ==
    IF \E i \in 1..Len(q) : Strip(q[i]) = << Sentinel >>
    THEN CHOOSE i \in 1..Len(q) :
           /\ Strip(q[i]) = << Sentinel >>
           /\ \A j \in 1..(i - 1) : Strip(q[j]) # << Sentinel >>
    ELSE 0

CmdReturned == pc = "idle" /\ ev.op = "save" /\ ev.res = "returned"

\* the invocation returned the first n lines of the response stream and left
\* on fd4 everything after line n + 1
ReturnedExactly(n) ==
    /\ SplitLines(result) = SubSeq(resp, 1, n)
    /\ fd4 = SubSeq(resp, n + 2, Len(resp))

\* C1 as stated: when the child's response stream is N lines other than the
\* line DST_RemoteCommandDone, followed by that line, a returned invocation
\* has returned exactly those N lines and consumed nothing after the sentinel.
C1_Original ==
    (CmdReturned /\ FirstLiteralSentinel(resp) > 0)
        => ReturnedExactly(FirstLiteralSentinel(resp) - 1)

\* C1 amended: when the child's response stream is N lines none of which is
\* DST_RemoteCommandDone surrounded only by whitespace, followed by the sentinel
\* line, a returned invocation has returned exactly those N lines, in order,
\* and has left on the stream everything after the sentinel; and an
\* invocation returns only when the stream held such a sentinel line.
C1_SendCmdReturnsLinesBeforeSentinel ==
    /\ (CmdReturned /\ FirstStrippedSentinel(resp) > 0)
          => ReturnedExactly(FirstStrippedSentinel(resp) - 1)
    /\ (CmdReturned => FirstStrippedSentinel(resp) > 0)

C1_Witness ==
    /\ CmdReturned
    /\ resp = << << "a", NL >>, << NL >>, SentinelLine, << "a", NL >> >>
    /\ result = << "a", NL, NL >>
    /\ fd4 = << << "a", NL >> >>

\* C2: once the timeout of a command invocation has elapsed without the
\* sentinel, the calling thread is no longer blocked inside the invocation:
\* it never sits in _send_cmd's read, the timer expired, nothing to read and
\* no child left that could write.
C2_TimeoutEndsInvocation ==
    ~ ( /\ timer.state = "fired"
        /\ pc = "cmd_read"
        /\ fd4 = << >>
        /\ 4 \notin eof
        /\ \A i \in ChildIds : children[i] # "alive" )

\* C3: when stop() has had no response to c_shutdown within its 60 seconds
\* and the child is not responding, the child has been sent SIGTERM first
\* (and SIGKILL after it, the child being still alive).
C3_StopEscalatesToSignals ==
    ( /\ call = "stop"
      /\ timer = [state |-> "fired", timeout |-> StopTimeout]
      /\ children[process] = "hung" )
        => signals[process] = << "SIGTERM", "SIGKILL" >>

\* a step that is a call of Shard.start()
StartCalled == ev'.n # ev.n /\ ev'.op = "start"

\* C4: start() on a shard whose child is alive is a no-op: no process is
\* spawned, the handle refers to the same child, no telemetry thread is
\* started and the shard is running as before.
C4_StartOnRunningIsNoOp ==
    [][ (StartCalled /\ process # 0 /\ children[process] = "alive")
          => /\ process' = process
             /\ children' = children
             /\ child_args' = child_args
             /\ returncode' = returncode
             /\ monitor_thread' = monitor_thread
             /\ fd_files' = fd_files
             /\ pc' = "idle"
             /\ ev'.res = "ignored" ]_vars

C4_Witness ==
    /\ ev.op = "start"
    /\ ev.res = "ignored"
    /\ process # 0
    /\ children[process] = "alive"
    /\ monitor_thread # "None"

\* the two fields of a telemetry line KEY|VALUE, << >> when it has another shape
RecordParts(line) ==
    LET parts == Split(Strip(line), "|") IN IF Len(parts) = 2 THEN parts ELSE << >>

IsStatsRecord(line) ==
    /\ RecordParts(line) # << >>
    /\ Lower(RecordParts(line)[1]) = << "dst_stats" >>
    /\ Len(Split(RecordParts(line)[2], ",")) = 5

StatsField(line, k) == Split(RecordParts(line)[2], ",")[k]

\* C5: after the reader has consumed a dst_stats record of five values, the
\* status holds the record's fourth and fifth values as the current and
\* maximum player counts and its first and second values as the cpu loads.
C5_StatsRecordStored ==
    IsStatsRecord(last_rec)
        => /\ { "num_players", "max_players", "cpu_load1", "cpu_load2" } \subseteq DOMAIN stats
           /\ stats["num_players"] = PyInt(StatsField(last_rec, 4))
           /\ stats["max_players"] = PyInt(StatsField(last_rec, 5))
           /\ stats["cpu_load1"] = StatsField(last_rec, 1)
           /\ stats["cpu_load2"] = StatsField(last_rec, 2)

IsNumPlayersRecord(line) ==
    /\ RecordParts(line) # << >>
    /\ Lower(RecordParts(line)[1]) = << "dst_numplayerschanged" >>
    /\ PyIntOk(RecordParts(line)[2])

\* a step in which the telemetry reader consumes a line
RecordConsumed == monitor_thread = "read" /\ monitor_thread' # "read"

\* C6: consuming DST_NumPlayersChanged|n sets the current player count to n
\* and leaves every other status field as it was; the reader goes on.
C6_NumPlayersChangedOnly ==
    [][ (RecordConsumed /\ IsNumPlayersRecord(last_rec'))
          => /\ DOMAIN stats' = DOMAIN stats \cup { "num_players" }
             /\ stats'["num_players"] = PyInt(RecordParts(last_rec')[2])
             /\ \A k \in DOMAIN stats \ { "num_players" } : stats'[k] = stats[k]
             /\ monitor_thread' = "check" ]_vars

C6_Witness ==
    /\ last_rec = NumPlayersLine
    /\ monitor_thread = "check"
    /\ DOMAIN stats = { "num_players", "session_id", "port" }
    /\ stats["num_players"] = 2
    /\ stats["port"] = 10999

\* C7: a Cluster.start() during which the Steam updater fails ends in its
\* error, and in that call no shard is started, no process is spawned (the
\* registered shards' and the temporary shard's alike) and the shard list is
\* untouched; every shard is stopped afterwards.
C7_SteamFailureAbortsStart ==
    [][ (cev'.n # cev.n /\ cev'.op = "start" /\ cev'.steam = "failed")
          => /\ cev'.res = "RuntimeError"
             /\ cshard' = cshard
             /\ temp_spawned' = temp_spawned
             /\ started' = started
             /\ shard_list' = shard_list
             /\ \A name \in Range(shard_list') : cshard'[name] = "None" ]_vars

C7_Witness ==
    /\ cev.op = "start"
    /\ cev.steam = "failed"
    /\ cev.res = "RuntimeError"
    /\ Len(shard_list) = 2
    /\ started = << >>

\* C8: after a Cluster.start() made on a stopped cluster with an empty shard
\* list, in which the configuration loaded, Steam updated and the binary
\* launched, the shard list holds exactly the subdirectories of the cluster
\* directory, in enumeration order.
C8_DiscoveryRegistersSubdirectories ==
    ( /\ cev.op = "start"
      /\ cev.empty
      /\ cev.res \notin { "ignored", "ConfigError", "RuntimeError", "SpawnError" } )
        => shard_list = detect_shard_paths

\* C9: when stop() has got the sentinel for c_shutdown and the child has
\* exited, stop() goes on to return: while it waits in join, the parent
\* (the telemetry thread or the join itself) can still take a step.
C9_StopReturnsAfterChildExit ==
    ( /\ call = "stop"
      /\ pc = "join"
      /\ \A i \in ChildIds : children[i] # "alive"
      /\ children[process] = "exited" )
        => ENABLED (join \/ update_stats_check \/ update_stats_read)

\* C10: a start() called on a shard whose previously spawned child has exited
\* is not ignored: unless the configuration or the spawn fails, it returns
\* with a new child.
C10_StartAfterExitSpawns ==
    [][ (StartCalled /\ process # 0 /\ children[process] = "exited")
          => /\ ev'.res # "ignored"
             /\ (ev'.res = "returned" => process' # process) ]_vars

\* the lifecycle state of the shard, read off what is actually the case: a
\* start() or stop() under way, a child that has not exited, or neither
LifecycleState ==
    IF call \in { "stop", "update_mods" } THEN "Stopping"
    ELSE IF \E i \in ChildIds : children[i] \in { "alive", "hung" } THEN "Running"
    ELSE "Stopped"

\* C11: the shard holds a process handle exactly when its lifecycle state is
\* Starting, Running or Stopping; a Stopped shard holds none.
C11_HandleIffNotStopped ==
    (process # 0) <=> (LifecycleState \in { "Starting", "Running", "Stopping" })

\* C12: is_running() is true exactly when a child has been spawned for the
\* handle and has not exited.
C12_IsRunningIsLiveness ==
    is_running <=> (process # 0 /\ children[process] \in { "alive", "hung" })

\* C13: once the owning child is no longer alive, the telemetry loop ends at
\* its next test of the loop condition instead of going back to read.
C13_ReaderEndsWhenChildGone ==
    [][ ( /\ monitor_thread = "check"
          /\ monitor_thread' # "check"
          /\ process # 0
          /\ children[process] = "exited" )
          => monitor_thread' = "finished" ]_vars

\* C14: a read of the response stream that meets end-of-file before the
\* sentinel ends the invocation with an error for the caller; it does not go
\* on reading.
C14_EofEndsInvocation ==
    [][ ( /\ pc = "cmd_read"
          /\ fd4 = << >>
          /\ 4 \in eof )
          => ( /\ pc' = "idle"
               /\ call' = "none"
               /\ ev'.res \notin { "pending", "returned" } ) ]_vars

RecognizedKeys ==
    { << "dst_stats" >>, << "dst_sessionid" >>, << "dst_master_ready" >>,
      << "dst_numplayerschanged" >>, << "dst_saved" >> }

IsUnknownRecord(line) ==
    /\ RecordParts(line) # << >>
    /\ Lower(RecordParts(line)[1]) \notin RecognizedKeys

\* C15: consuming a record KEY|VALUE whose key, lower-cased, is none of the
\* five recognized keys leaves every status field as it was and the reader
\* goes back to its loop condition, so later records are still read.
C15_UnknownKeyIgnored ==
    [][ (RecordConsumed /\ IsUnknownRecord(last_rec'))
          => /\ stats' = stats
             /\ monitor_thread' = "check" ]_vars

C15_Witness ==
    /\ IsUnknownRecord(last_rec)
    /\ monitor_thread = "read"
    /\ fd5 # << >>
    /\ stats # NoStats

\* C16: a start() in which spawning the child fails ends in the spawn error
\* and leaves the shard Stopped: no handle is held, is_running() is false, no
\* child exists and no telemetry thread was started.
C16_SpawnFailureLeavesStopped ==
    [][ (StartCalled /\ ev'.res = "SpawnError")
          => /\ process' = 0
             /\ ~(is_running)'
             /\ monitor_thread' = "None"
             /\ children' = children
             /\ LifecycleState' = "Stopped" ]_vars

C16_Witness ==
    /\ ev.op = "start"
    /\ ev.res = "SpawnError"
    /\ process = 0
    /\ monitor_thread = "None"

\* C17: save() writes c_save() under a 30-second timer and announce(m) writes
\* c_announce("m") under a 5-second timer, neither touches the process handle,
\* the children or the telemetry thread, and the caller is never left inside
\* either once its timer has expired with nothing to read and no child alive
\* to answer: the timeout has been reported to it.
C17_SaveAnnounceReportTimeout ==
    [][ /\ (ev'.n # ev.n /\ ev'.op = "save" /\ ev'.res = "pending")
            => /\ fd3' = Append(fd3, "c_save()")
               /\ timer' = [state |-> "running", timeout |-> 30]
               /\ << process, children, monitor_thread >>' =
                      << process, children, monitor_thread >>
        /\ (ev'.n # ev.n /\ ev'.op = "announce" /\ ev'.res = "pending")
            => /\ \E msg \in Msgs : fd3' = Append(fd3, "c_announce(\"" \o msg \o "\")")
               /\ timer' = [state |-> "running", timeout |-> 5]
               /\ << process, children, monitor_thread >>' =
                      << process, children, monitor_thread >>
        /\ ~ ( /\ call' \in { "save", "announce" }
               /\ pc' = "cmd_read"
               /\ timer'.state = "fired"
               /\ fd4' = << >>
               /\ 4 \notin eof'
               /\ \A i \in ChildIds : children'[i] # "alive" ) ]_vars

\* C18: update_mods() called on a Stopped shard, its spawn succeeding,
\* launches a child with the mod-update-only flag alone and enters stop()
\* with the pipe files open and a telemetry thread to join: the shutdown
\* command is written and the call does not fail for lack of them.
C18_UpdateModsIsStartStopCycle ==
    [][ ( /\ ev'.n # ev.n
          /\ ev'.op = "update_mods"
          /\ ev'.res # "SpawnError"
          /\ LifecycleState = "Stopped" )
          => /\ process' # 0
             /\ process' # process
             /\ child_args'[process'] = { "-only_update_server_mods" }
             /\ fd_files'
             /\ monitor_thread' # "None"
             /\ fd3' = Append(fd3, "c_shutdown(true)")
             /\ ev'.res = "pending" ]_vars

\* C19: once stop() has returned and the shard's child has exited, the
\* parent's pipe files of that run (_fd3_file, _fd4_file, _fd5_file) are
\* closed; and so they are at the end of any call on the shard that is made
\* after its child has exited (a crash): none is left open for the next run.
C19_PipeEndsClosedAfterExit ==
    [][ /\ ( /\ ev'.op = "stop"
             /\ ev'.res = "returned"
             /\ pc' = "idle"
             /\ process' # 0
             /\ children'[process'] = "exited" )
            => ~fd_files'
        /\ ( /\ ev'.n # ev.n
             /\ pc' = "idle"
             /\ process # 0
             /\ process' = process
             /\ children[process] = "exited" )
            => ~fd_files' ]_vars

\* some registered shard's child is alive
SomeShardAlive == \E name \in Range(shard_list) : cshard[name] = "alive"

\* C20: Cluster.start() called while some shard is alive is ignored: no
\* updater runs, the shard list is unchanged and no shard is started; and
\* Cluster.stop() called while no shard is alive is ignored too: no shard is
\* sent a command.
C20_StartStopNoOps ==
    [][ /\ (cev'.n # cev.n /\ cev'.op = "start" /\ SomeShardAlive)
            => /\ cev'.res = "ignored"
               /\ cev'.steam = "not run"
               /\ << shard_list, cshard, temp_spawned, started, commands >>' =
                      << shard_list, cshard, temp_spawned, started, commands >>
        /\ (cev'.n # cev.n /\ cev'.op = "stop" /\ ~SomeShardAlive)
            => /\ cev'.res = "ignored"
               /\ commands' = commands
               /\ stopping' = 0 ]_vars

\* every registered shard holds no process handle
ClusterStopped == \A name \in Range(shard_list) : cshard[name] = "None"

\* C21: a Cluster.start() on a stopped cluster that meets no configuration,
\* updater or spawn failure runs the updaters and then starts every registered
\* shard, in shard_list order; and Cluster.stop() sends its commands in
\* shard_list order, a later shard's only after the stop() of the shard it was
\* inside has returned.
C21_StartStopInRegistrationOrder ==
    [][ /\ ( /\ cev'.n # cev.n
             /\ cev'.op = "start"
             /\ ClusterStopped
             /\ cev'.res \notin { "ConfigError", "RuntimeError", "SpawnError" } )
            => /\ cev'.res = "returned"
               /\ cev'.steam = "ok"
               /\ started' = started \o shard_list'
               /\ \A name \in Range(shard_list') : cshard'[name] = "alive"
        /\ (commands' # commands)
            => /\ stopping' > stopping
               /\ commands' = Append(commands, shard_list[stopping'])
               /\ stopping # 0 => cshard'[shard_list[stopping]] = "exited"
               /\ \A i \in (stopping + 1)..(stopping' - 1) :
                      cshard[shard_list[i]] = "None" ]_vars

\* the children of the shard that have not exited
LiveChildren == { i \in ChildIds : children[i] \in { "alive", "hung" } }

\* C23: the shard never has more than one live child, and no step replaces
\* the process handle while the child it referred to is still alive.
C23_AtMostOneLiveChild ==
    [][ /\ Cardinality(LiveChildren') <= 1
        /\ (process # 0 /\ process' # process) => process \notin LiveChildren ]_vars

\* the parent's file for child descriptor k wraps the given end of some pipe
\* and the child's descriptor k is the other end of that pipe
Attached(k, parent_end) ==
    /\ fileno[k] # 0
    /\ fdtable[fileno[k]].kind = "pipe"
    /\ fdtable[fileno[k]].end = parent_end
    /\ child_table[k].kind = "pipe"
    /\ child_table[k].pipe = fdtable[fileno[k]].pipe
    /\ child_table[k].end # parent_end

\* C22: a spawned child starts with descriptor 3 on the read end of the pipe
\* _fd3_file writes to, and with descriptors 4 and 5 on the write ends of the
\* pipes _fd4_file and _fd5_file read from.
C22_ChildStartsAttached ==
    fpc = "spawned" => (Attached(3, "w") /\ Attached(4, "r") /\ Attached(5, "r"))

====
